---- MODULE Spec2Model ----
(***************************************************************************)
(* hackfn: the #[hackfn] attribute macro (src/src/lib.rs) and the code it  *)
(* generates.                                                              *)
(*                                                                         *)
(* Part 1 models the macro: the annotated declaration is a token stream,   *)
(* HackFn::parse walks it with a cursor, hackfn() emits either the two     *)
(* generated impls or a compile_error.  Part 2 models the generated        *)
(* Deref::deref and calls through the returned view at run time.           *)
(*                                                                         *)
(* Tokens.  A token is a string.  Token trees that syn parses as one unit  *)
(* are one token here: "attr" is one outer attribute #[...], "generics"    *)
(* is one well formed <...> parameter list, "where" one where-clause,      *)
(* "ty" some type that is not a single identifier.  A delimited group is   *)
(* one token of its parent stream ("brace", "paren") and its content is a  *)
(* stream of its own: d.block is the content of the impl's braces,         *)
(* d.arglist the content of the method's parentheses, d.body the opaque    *)
(* content of the method's braces.                                         *)
(***************************************************************************)
EXTENDS Integers, Sequences, FiniteSets, TLC

\* ------------------------------------------------------------------------
\* Bounds of the model
\* ------------------------------------------------------------------------
MaxParams == 2
MaxAttrs == 1
MaxCalls == 3
MaxPad == 1

\* ------------------------------------------------------------------------
\* Token classes (syn's Ident, Type)
\* ------------------------------------------------------------------------
ParamNames == {"a", "b", "c"}
ParamTypes == {"T", "U"}
Idents == ParamNames \cup ParamTypes
            \cup {"call", "Plus", "u32", "other", "first", "second", "Rec"}
CompositeTypes == {"ty", "AccumulatePairs<T>"}

\* syn::Ident rejects keywords; syn::Type accepts a path, and `self` is a
\* path segment.
is_ident(t) == t \in Idents
is_type_start(t) == t \in Idents \cup CompositeTypes \cup {"self"}

peek(s, i, t) == i <= Len(s) /\ s[i] = t
peek_ident(s, i) == i <= Len(s) /\ is_ident(s[i])
peek_type(s, i) == i <= Len(s) /\ is_type_start(s[i])

\* Attribute::parse_outer: consumes attributes while the next token is one.
RECURSIVE parse_outer(_, _)
parse_outer(s, i) == IF peek(s, i, "attr") THEN parse_outer(s, i + 1) ELSE i

\* ------------------------------------------------------------------------
\* Parse results
\* ------------------------------------------------------------------------
NoError == [kind |-> "none", msg |-> "", stream |-> "", pos |-> 0]
Error(m, st, p) == [kind |-> "syn::Error", msg |-> m, stream |-> st, pos |-> p]

NoHackFn == [impl_attrs |-> 0, generics |-> FALSE, where_clause |-> FALSE,
             self_ty |-> "", fn_attrs |-> 0, vis |-> "", method |-> "",
             args |-> << >>, ret_ty |-> "None", body |-> ""]

Failed(e) == [ok |-> FALSE, err |-> e, hf |-> NoHackFn, top_pos |-> 0, block_pos |-> 0]

\* impl Parse for Nothing: succeeds without consuming anything.
Nothing_parse(s) == [ok |-> TRUE, pos |-> 1]

\* impl Parse for FnArg, from cursor i of the argument list.
FnArg_parse(s, i) ==
    IF ~peek_ident(s, i)
    THEN [ok |-> FALSE, err |-> Error("expected identifier", "argument_list", i),
          pos |-> i, arg |-> [ident |-> "", ty |-> ""]]
    ELSE IF ~peek(s, i + 1, ":")
    THEN [ok |-> FALSE, err |-> Error("expected :", "argument_list", i + 1),
          pos |-> i + 1, arg |-> [ident |-> "", ty |-> ""]]
    ELSE IF ~peek_type(s, i + 2)
    THEN [ok |-> FALSE, err |-> Error("expected type", "argument_list", i + 2),
          pos |-> i + 2, arg |-> [ident |-> "", ty |-> ""]]
    ELSE [ok |-> TRUE, err |-> NoError, pos |-> i + 3,
          arg |-> [ident |-> s[i], ty |-> s[i + 2]]]

\* The receiver: argument_list.parse::<Token![&]>()?; parse::<Token![self]>()?
receiver_mut_accepted(s) ==
    IF ~peek(s, 1, "&")
    THEN [ok |-> FALSE, err |-> Error("expected &", "argument_list", 1), pos |-> 1]
    ELSE IF peek(s, 2, "mut") /\ peek(s, 3, "self")
    THEN [ok |-> TRUE, err |-> NoError, pos |-> 4]
    ELSE IF ~peek(s, 2, "self")
    THEN [ok |-> FALSE, err |-> Error("expected self", "argument_list", 2), pos |-> 2]
    ELSE [ok |-> TRUE, err |-> NoError, pos |-> 3]

receiver_distinct_kind(s) ==
    IF ~peek(s, 1, "&")
    THEN [ok |-> FALSE,
          err |-> [kind |-> "ReceiverShapeError", msg |-> "expected &self receiver",
                   stream |-> "argument_list", pos |-> 1], pos |-> 1]
    ELSE IF ~peek(s, 2, "self")
    THEN [ok |-> FALSE,
          err |-> [kind |-> "ReceiverShapeError", msg |-> "unsupported receiver form",
                   stream |-> "argument_list", pos |-> 2], pos |-> 2]
    ELSE [ok |-> TRUE, err |-> NoError, pos |-> 3]

parse_receiver(s) ==
    IF ~peek(s, 1, "&")
    THEN [ok |-> FALSE, err |-> Error("expected &", "argument_list", 1), pos |-> 1]
    ELSE IF ~peek(s, 2, "self")
    THEN [ok |-> FALSE, err |-> Error("expected self", "argument_list", 2), pos |-> 2]
    ELSE [ok |-> TRUE, err |-> NoError, pos |-> 3]

\* The loop over the remaining arguments: while !argument_list.is_empty().
RECURSIVE parse_args_no_trailing(_, _, _)
parse_args_no_trailing(s, i, args) ==
    IF i > Len(s)
    THEN [ok |-> TRUE, err |-> NoError, pos |-> i, args |-> args]
    ELSE IF ~peek(s, i, ",")
    THEN [ok |-> FALSE, err |-> Error("expected ,", "argument_list", i),
          pos |-> i, args |-> << >>]
    ELSE LET a == FnArg_parse(s, i + 1)
         IN IF ~a.ok
            THEN [ok |-> FALSE, err |-> a.err, pos |-> a.pos, args |-> << >>]
            ELSE parse_args_no_trailing(s, a.pos, Append(args, a.arg))

RECURSIVE parse_args(_, _, _)
parse_args(s, i, args) ==
    IF i > Len(s)
    THEN [ok |-> TRUE, err |-> NoError, pos |-> i, args |-> args]
    ELSE IF ~peek(s, i, ",")
    THEN [ok |-> FALSE, err |-> Error("expected ,", "argument_list", i),
          pos |-> i, args |-> << >>]
    ELSE IF i + 1 > Len(s)
    THEN [ok |-> TRUE, err |-> NoError, pos |-> i + 1, args |-> args]
    ELSE LET a == FnArg_parse(s, i + 1)
         IN IF ~a.ok
            THEN [ok |-> FALSE, err |-> a.err, pos |-> a.pos, args |-> << >>]
            ELSE parse_args(s, a.pos, Append(args, a.arg))

\* impl Parse for HackFn.  top_pos and block_pos are the cursors of `input`
\* and `impl_block` when parse returns Ok.
HackFn_parse(d) ==
    LET input == d.top
        i0 == parse_outer(input, 1)
    IN
    IF ~peek(input, i0, "impl")
    THEN Failed(Error("expected impl", "input", i0)) ELSE
    LET has_generics == peek(input, i0 + 1, "generics")
        i2 == IF has_generics THEN i0 + 2 ELSE i0 + 1
    IN
    IF ~peek_type(input, i2)
    THEN Failed(Error("expected type", "input", i2)) ELSE
    LET has_where == peek(input, i2 + 1, "where")
        i4 == IF has_where THEN i2 + 2 ELSE i2 + 1
    IN
    IF ~peek(input, i4, "brace")
    THEN Failed(Error("expected curly braces", "input", i4)) ELSE
    LET impl_block == d.block
        j0 == parse_outer(impl_block, 1)
        has_vis == peek(impl_block, j0, "pub")
        j1 == IF has_vis THEN j0 + 1 ELSE j0
    IN
    IF ~peek(impl_block, j1, "fn")
    THEN Failed(Error("expected fn", "impl_block", j1)) ELSE
    IF ~peek_ident(impl_block, j1 + 1)
    THEN Failed(Error("expected identifier", "impl_block", j1 + 1)) ELSE
    LET j3 == j1 + 2 IN
    IF ~peek(impl_block, j3, "paren")
    THEN Failed(Error("expected parentheses", "impl_block", j3)) ELSE
    LET argument_list == d.arglist
        r == parse_receiver(argument_list)
    IN
    IF ~r.ok THEN Failed(r.err) ELSE
    LET al == parse_args(argument_list, r.pos, << >>) IN
    IF ~al.ok THEN Failed(al.err) ELSE
    LET has_ret == peek(impl_block, j3 + 1, "->")
    IN
    IF has_ret /\ ~peek_type(impl_block, j3 + 2)
    THEN Failed(Error("expected type", "impl_block", j3 + 2)) ELSE
    LET j5 == IF has_ret THEN j3 + 3 ELSE j3 + 1
        j6 == j5
    IN
    IF ~peek(impl_block, j6, "brace")
    THEN Failed(Error("expected curly braces", "impl_block", j6)) ELSE
    [ok |-> TRUE, err |-> NoError,
     hf |-> [impl_attrs |-> i0 - 1,
             generics |-> has_generics,
             where_clause |-> has_where,
             self_ty |-> input[i2],
             fn_attrs |-> j0 - 1,
             vis |-> IF has_vis THEN "pub" ELSE "",
             method |-> impl_block[j1 + 1],
             args |-> al.args,
             ret_ty |-> IF has_ret THEN impl_block[j3 + 2] ELSE "None",
             body |-> d.body],
     top_pos |-> i4 + 1, block_pos |-> j6 + 1]


\* parse_macro_input!(input as HackFn): the parser must also have consumed
\* everything.  Tokens left in impl_block after the method body are recorded
\* when that buffer is dropped and reported first; then tokens left in input.
parse_macro_input(d) ==
    LET r == HackFn_parse(d) IN
    IF ~r.ok THEN r
    ELSE IF r.block_pos <= Len(d.block)
    THEN Failed(Error("unexpected token", "impl_block", r.block_pos))
    ELSE IF r.top_pos <= Len(d.top)
    THEN Failed(Error("unexpected token", "input", r.top_pos))
    ELSE r

\* parse_macro_input!(args as Nothing): the attribute takes no arguments.
parse_macro_args(d) ==
    LET r == Nothing_parse(d.args) IN
    IF r.pos <= Len(d.args)
    THEN Failed(Error("unexpected token", "args", r.pos))
    ELSE [ok |-> TRUE, err |-> NoError, hf |-> NoHackFn, top_pos |-> 0, block_pos |-> 0]

\* ------------------------------------------------------------------------
\* The generator
\* ------------------------------------------------------------------------
arg_names(args) == [i \in 1..Len(args) |-> args[i].ident]
arg_types(args) == [i \in 1..Len(args) |-> args[i].ty]

Reverse(s) == [i \in 1..Len(s) |-> s[Len(s) + 1 - i]]

\* #(, #arg_names: #arg_types)*  and  #(#arg_names : #arg_types),*
zip_params(names, types) ==
    [i \in 1..Len(names) |-> [name |-> names[i], ty |-> types[i]]]

\* The closure body: Self::#method(unsafe { &*__this.as_ptr() } #(, #arg_names)*)
closure_call_reversed(method, names) ==
    [method |-> method, receiver |-> "__this", args |-> Reverse(names)]

closure_call(method, names) ==
    [method |-> method, receiver |-> "__this", args |-> names]

NoImpl == [present |-> FALSE, attrs |-> 0, generics |-> FALSE, self_ty |-> "",
           where_clause |-> FALSE, fn_attrs |-> 0, vis |-> "", method |-> "",
           params |-> << >>, ret_ty |-> "None", body |-> ""]

NoDeref == [present |-> FALSE, attrs |-> 0, generics |-> FALSE, self_ty |-> "",
            where_clause |-> FALSE, target_args |-> << >>, target_ret |-> "None",
            closure_params |-> << >>, closure_ret |-> "None",
            call |-> [method |-> "", receiver |-> "", args |-> << >>]]

\* The first generated declaration: impl #generics #self_ty #where_clause
\* { #vis fn #method(&self #(, #arg_names: #arg_types)*) #ret_ty { #body } }
inherent_impl(hf) ==
    [present |-> TRUE, attrs |-> hf.impl_attrs, generics |-> hf.generics,
     self_ty |-> hf.self_ty, where_clause |-> hf.where_clause,
     fn_attrs |-> hf.fn_attrs, vis |-> hf.vis, method |-> hf.method,
     params |-> zip_params(arg_names(hf.args), arg_types(hf.args)),
     ret_ty |-> hf.ret_ty, body |-> hf.body]

\* The second: impl #generics ::std::ops::Deref for #self_ty #where_clause
deref_impl_no_where(hf) ==
    [present |-> TRUE, attrs |-> hf.impl_attrs, generics |-> hf.generics,
     self_ty |-> hf.self_ty, where_clause |-> FALSE,
     target_args |-> arg_types(hf.args), target_ret |-> hf.ret_ty,
     closure_params |-> zip_params(arg_names(hf.args), arg_types(hf.args)),
     closure_ret |-> hf.ret_ty,
     call |-> closure_call(hf.method, arg_names(hf.args))]

deref_impl(hf) ==
    [present |-> TRUE, attrs |-> hf.impl_attrs, generics |-> hf.generics,
     self_ty |-> hf.self_ty, where_clause |-> hf.where_clause,
     target_args |-> arg_types(hf.args), target_ret |-> hf.ret_ty,
     closure_params |-> zip_params(arg_names(hf.args), arg_types(hf.args)),
     closure_ret |-> hf.ret_ty,
     call |-> closure_call(hf.method, arg_names(hf.args))]

compile_error(e) ==
    [kind |-> "compile_error", error |-> e, inherent |-> NoImpl, deref |-> NoDeref]

\* pub fn hackfn(args, input) -> TokenStream
hackfn_partial_output(d) ==
    LET a == parse_macro_args(d) IN
    IF ~a.ok THEN compile_error(a.err) ELSE
    LET r == parse_macro_input(d) IN
    IF ~r.ok
    THEN [kind |-> "compile_error", error |-> r.err,
          inherent |-> inherent_impl(HackFn_parse(d).hf), deref |-> NoDeref]
    ELSE [kind |-> "expanded", error |-> NoError,
          inherent |-> inherent_impl(r.hf), deref |-> deref_impl(r.hf)]

hackfn(d) ==
    LET a == parse_macro_args(d) IN
    IF ~a.ok THEN compile_error(a.err) ELSE
    LET r == parse_macro_input(d) IN
    IF ~r.ok THEN compile_error(r.err)
    ELSE [kind |-> "expanded", error |-> NoError,
          inherent |-> inherent_impl(r.hf), deref |-> deref_impl(r.hf)]

NoOutput == [kind |-> "none", error |-> NoError, inherent |-> NoImpl, deref |-> NoDeref]

\* ------------------------------------------------------------------------
\* The declarations the macro is applied to
\* ------------------------------------------------------------------------
Rep(t, n) == [i \in 1..n |-> t]
Opt(b, t) == IF b THEN <<t>> ELSE << >>

TopStreams ==
    { Rep("attr", n) \o Opt(i, "impl") \o Opt(g, "generics") \o Opt(t, "Plus")
        \o Opt(w, "where") \o Opt(b, "brace") \o Opt(x, "impl") :
      n \in 0..MaxAttrs, i \in BOOLEAN, g \in BOOLEAN, t \in BOOLEAN,
      w \in BOOLEAN, b \in BOOLEAN, x \in BOOLEAN }

RetForms == { << >>, <<"->", "u32">>, <<"->">>, <<"u32">> }

BlockStreams ==
    { Rep("attr", n) \o Opt(v, "pub") \o Opt(f, "fn") \o Opt(m, "call")
        \o Opt(g, "generics") \o Opt(p, "paren") \o rt \o Opt(w, "where")
        \o Opt(b, "brace") \o Opt(x, "fn") :
      n \in 0..MaxAttrs, v \in BOOLEAN, f \in BOOLEAN, m \in BOOLEAN,
      g \in BOOLEAN, p \in BOOLEAN, rt \in RetForms, w \in BOOLEAN,
      b \in BOOLEAN, x \in BOOLEAN }

Param == [name : ParamNames, ty : ParamTypes]
ParamLists == UNION { [1..n -> Param] : n \in 0..MaxParams }

Distinct(ps) == \A i, j \in 1..Len(ps) : ps[i].name = ps[j].name => i = j

Styles == {"plain", "trailing", "nocomma", "double", "nocolon"}

RenderParam(p, style) ==
    (IF style = "nocomma" THEN << >> ELSE <<",">>)
      \o <<p.name>>
      \o (IF style = "nocolon" THEN << >> ELSE <<":">>)
      \o <<p.ty>>

RECURSIVE RenderParams(_, _)
RenderParams(ps, style) ==
    IF Len(ps) = 0
    THEN IF style = "trailing" THEN <<",">>
         ELSE IF style = "double" THEN <<",", ",">>
         ELSE << >>
    ELSE RenderParam(Head(ps), style) \o RenderParams(Tail(ps), style)

Receivers == { <<"&", "self">>, <<"self">>, <<"&", "mut", "self">>,
               <<"mut", "self">>, <<"&">>, << >> }

\* With the receiver omitted the list starts with the first parameter.
RenderArgs(rc, ps, style) ==
    LET rest == RenderParams(ps, style) IN
    IF Len(rc) = 0 /\ Len(rest) > 0 /\ Head(rest) = "," THEN Tail(rest)
    ELSE rc \o rest

ArgLists == { RenderArgs(rc, ps, style) :
              rc \in Receivers, ps \in ParamLists, style \in Styles }

GoodTops == { <<"impl", "Plus", "brace">>,
              <<"attr", "impl", "generics", "AccumulatePairs<T>", "where", "brace">> }
GoodBlocks == { <<"fn", "call", "paren", "brace">>,
                <<"attr", "pub", "fn", "call", "paren", "->", "u32", "brace">> }
GoodArgs == <<"&", "self", ",", "a", ":", "T">>

Decl(ar, t, b, al, bd) ==
    [args |-> ar, top |-> t, block |-> b, arglist |-> al, body |-> bd]

PlusDecl ==
    Decl(<< >>, <<"impl", "Plus", "brace">>,
         <<"fn", "call", "paren", "->", "u32", "brace">>,
         <<"&", "self", ",", "other", ":", "u32">>, "plus_body")

AccumDecl ==
    Decl(<< >>, <<"impl", "generics", "AccumulatePairs<T>", "where", "brace">>,
         <<"fn", "call", "paren", "brace">>,
         <<"&", "self", ",", "first", ":", "T", ",", "second", ":", "T">>,
         "accum_body")

\* Rec: a unit struct whose method returns its arguments as a tuple.
RecType(name) == IF name = "b" THEN "U" ELSE "T"

RecDecls ==
    { Decl(<< >>, <<"impl", "Rec", "brace">>,
           <<"fn", "call", "paren", "->", "ty", "brace">>,
           RenderArgs(<<"&", "self">>, ps, "plain"), "tuple_body") :
      ps \in { q \in ParamLists :
                  /\ Distinct(q)
                  /\ \A i \in 1..Len(q) : q[i].ty = RecType(q[i].name) } }

Programs == {PlusDecl, AccumDecl} \cup RecDecls

Decls ==
    { Decl(<< >>, t, <<"fn", "call", "paren", "brace">>, GoodArgs, "opaque") :
      t \in TopStreams }
    \cup { Decl(<< >>, t, b, GoodArgs, "opaque") : t \in GoodTops, b \in BlockStreams }
    \cup { Decl(<< >>, t, b, al, "opaque") :
           t \in GoodTops, b \in GoodBlocks, al \in ArgLists }
    \cup { Decl(<<"x">>, t, <<"fn", "call", "paren", "brace">>, al, "opaque") :
           t \in GoodTops, al \in { GoodArgs, <<"self">> } }
    \cup Programs

\* ------------------------------------------------------------------------
\* The generated code at run time
\* ------------------------------------------------------------------------
\* A u32 is kept as two 16-bit limbs, so that u32 arithmetic keeps its width.
Limb == 65536
U32(hi, lo) == [hi |-> hi, lo |-> lo]
U32Max == U32(Limb - 1, Limb - 1)

\* a + b on u32: the wrapped sum and whether it overflowed.
add_u32(a, b) ==
    LET lo == a.lo + b.lo
        hi == a.hi + b.hi + (lo \div Limb)
    IN [overflow |-> hi >= Limb, val |-> U32(hi % Limb, lo % Limb)]
NoAddr == 0 - 1
StackAddr == 64
ObjAddrs == {16, 20}

\* Layout of the target type: Plus(u32), AccumulatePairs<i32>, unit struct Rec.
size_of(ty) == IF ty = "Plus" THEN 4 ELSE IF ty = "AccumulatePairs<T>" THEN 8 ELSE 0
align_of(ty) == IF ty = "Rec" THEN 1 ELSE 4

RoundUp(n, a) == ((n + a - 1) \div a) * a

\* What the compiler decides: the layout of the closure type (which Rust
\* leaves unspecified) and whether arithmetic overflow is checked.
Builds == [pad_before : 0..MaxPad, pad_after : 0..MaxPad,
           align_factor : {1, 2}, overflow_checks : BOOLEAN]

NoBuild == [pad_before |-> 0, pad_after |-> 0, align_factor |-> 1,
            overflow_checks |-> FALSE]

\* The closure captures __this: MaybeUninit<Self> by move and nothing else.
closure_layout(ty, b) ==
    LET al == align_of(ty) * b.align_factor
        off == b.pad_before * align_of(ty)
    IN [size |-> RoundUp(off + size_of(ty) + b.pad_after * align_of(ty), al),
        align |-> al, this_offset |-> off]

KnownBodies == {"plus_body", "accum_body", "tuple_body"}

names_of(params) == { params[i].name : i \in 1..Len(params) }

free_vars(body) ==
    IF body = "plus_body" THEN {"other"}
    ELSE IF body = "accum_body" THEN {"first", "second"}
    ELSE {}

\* The expansion compiles: the body only sees the parameters of the
\* forwarding method, and parameter names are distinct.
Runnable(out) ==
    /\ out.kind = "expanded"
    /\ out.inherent.body \in KnownBodies
    /\ Distinct(out.inherent.params)
    /\ free_vars(out.inherent.body) \subseteq names_of(out.inherent.params)

Obj(v, f, s) == [v |-> v, first |-> f, second |-> s]
NoObj == Obj(U32(0, 0), 0, 0)

\* let plus_one = Plus(v); AccumulatePairs::default(); Rec
InitObjs(body) ==
    IF body = "plus_body" THEN { Obj(U32(0, 1), 0, 0), Obj(U32Max, 0, 0) } ELSE { NoObj }

\* What a read of memory that is not the object may yield.
Garbage == { Obj(U32(7, 7), 7, 7) }

ArgDomain(name) ==
    IF name = "other" THEN { U32(0, 0), U32(0, 2) }
    ELSE IF name = "first" THEN {10, 20, 30}
    ELSE IF name = "second" THEN {1, 2, 3}
    ELSE {1, 2}

RECURSIVE ArgTuples(_)
ArgTuples(params) ==
    IF Len(params) = 0 THEN { << >> }
    ELSE { <<x>> \o t : x \in ArgDomain(Head(params).name), t \in ArgTuples(Tail(params)) }

\* Positional binding of actual arguments to parameter names.
bind(params, actuals) ==
    [n \in names_of(params) |->
        actuals[CHOOSE i \in 1..Len(params) : params[i].name = n]]

\* The user's method bodies (src/tests/readme.rs), evaluated on the object the
\* receiver refers to, with the parameters bound in env.
method_body(body, params, self, env, checks) ==
    IF body = "plus_body"
    THEN LET sum == add_u32(self.v, env["other"]) IN
         IF sum.overflow /\ checks
         THEN [panic |-> TRUE, ret |-> << >>, obj |-> self]
         ELSE [panic |-> FALSE, ret |-> <<sum.val>>, obj |-> self]
    ELSE IF body = "accum_body"
    THEN [panic |-> FALSE, ret |-> << >>,
          obj |-> [self EXCEPT !.first = self.first + env["first"],
                               !.second = self.second + env["second"]]]
    ELSE [panic |-> FALSE, ret |-> [i \in 1..Len(params) |-> env[params[i].name]],
          obj |-> self]

\* The forwarding method of the first generated declaration, called with the
\* receiver's referent and positional arguments.
forwarding_method(out, self, actuals, checks) ==
    method_body(out.inherent.body, out.inherent.params, self,
                bind(out.inherent.params, actuals), checks)

\* The arguments the closure passes on: its own parameters, looked up by name.
closure_forwarded(out, actuals) ==
    LET cenv == bind(out.deref.closure_params, actuals) IN
    [i \in 1..Len(out.deref.call.args) |-> cenv[out.deref.call.args[i]]]

\* unsafe { &*__this.as_ptr() } inside the closure: the address of the captured
\* field of the closure value the call goes through.
this_ptr_stack(closure_addr, lay) == StackAddr + lay.this_offset

this_ptr(closure_addr, lay) == closure_addr + lay.this_offset

\* fn __second(__first, __second) { __second } applied to
\* (&__closure, transmute(self)).
second_returns_first(p_first, p_second) == p_first

second_fn(p_first, p_second) == p_second

\* assert_eq!(__size_of_closure, ::std::mem::size_of::<Self>())
layout_assert_skipped(lay, ty) == TRUE

layout_assert(lay, ty) == lay.size = size_of(ty)

NoCall == [via |-> "none", args |-> << >>, receiver |-> NoAddr, recv_args |-> << >>,
           ret |-> << >>, panicked |-> FALSE, pre |-> NoObj, read_uninit |-> FALSE]

\* ------------------------------------------------------------------------
\* State
\* ------------------------------------------------------------------------
VARIABLES
    pc,         \* "source", "expanded", "rejected", "compiled", "running", "panicked"
    input,      \* the annotated declaration
    output,     \* what hackfn returned for it
    build,      \* the compiler's choices for the expanded program
    obj,        \* the fields of the object the program constructs
    obj_addr,   \* where it lives
    view,       \* the address held by the reference deref returned, or NoAddr
    closure,    \* fate of __closure in the latest deref
    last,       \* the latest call of the method
    ncalls,     \* number of calls made
    nview,      \* number of them made through the view
    sum_first,  \* sum of the first arguments given to all calls so far
    sum_second  \* sum of the second arguments

vars == <<pc, input, output, build, obj, obj_addr, view, closure, last,
          ncalls, nview, sum_first, sum_second>>

runtime == <<build, obj, obj_addr, view, closure, last, ncalls, nview,
             sum_first, sum_second>>

Init ==
    /\ pc = "source"
    /\ input \in Decls
    /\ output = NoOutput
    /\ build = NoBuild
    /\ obj = NoObj
    /\ obj_addr = NoAddr
    /\ view = NoAddr
    /\ closure = "none"
    /\ last = NoCall
    /\ ncalls = 0
    /\ nview = 0
    /\ sum_first = 0
    /\ sum_second = 0

\* The compiler expands the attribute.
Expand ==
    /\ pc = "source"
    /\ output' = hackfn(input)
    /\ pc' = IF output'.kind = "expanded" THEN "expanded" ELSE "rejected"
    /\ UNCHANGED <<input, runtime>>

\* The compiler compiles the expansion.
Compile ==
    /\ pc = "expanded"
    /\ Runnable(output)
    /\ build' \in Builds
    /\ pc' = "compiled"
    /\ UNCHANGED <<input, output, obj, obj_addr, view, closure, last, ncalls,
                   nview, sum_first, sum_second>>

\* main constructs the object.
Construct ==
    /\ pc = "compiled"
    /\ obj' \in InitObjs(output.inherent.body)
    /\ obj_addr' \in ObjAddrs
    /\ pc' = "running"
    /\ UNCHANGED <<input, output, build, view, closure, last, ncalls,
                   nview, sum_first, sum_second>>

\* The generated Deref::deref(&self).
Deref ==
    /\ pc = "running"
    /\ LET lay == closure_layout(output.deref.self_ty, build)
           ret == second_fn(StackAddr, obj_addr)
       IN /\ closure' = "forgotten"
          /\ IF layout_assert(lay, output.deref.self_ty)
             THEN view' = ret /\ pc' = pc
             ELSE view' = view /\ pc' = "panicked"
    /\ UNCHANGED <<input, output, build, obj, obj_addr, last, ncalls,
                   nview, sum_first, sum_second>>

\* A call of the method whose receiver is the address recv.
CallAt(via, recv, args, fwd) ==
    \E g \in Garbage :
        LET self == IF recv = obj_addr THEN obj ELSE g
            m == forwarding_method(output, self, fwd, build.overflow_checks)
        IN /\ last' = [via |-> via, args |-> args, receiver |-> recv,
                       recv_args |-> [i \in 1..Len(output.inherent.params) |->
                           bind(output.inherent.params, fwd)[output.inherent.params[i].name]],
                       ret |-> m.ret, panicked |-> m.panic, pre |-> obj,
                       read_uninit |->
                           recv = StackAddr
                                    + closure_layout(output.deref.self_ty, build).this_offset]
           /\ obj' = IF recv = obj_addr THEN m.obj ELSE obj
           /\ pc' = IF m.panic THEN "panicked" ELSE pc
           /\ ncalls' = ncalls + 1
           /\ sum_first' = IF output.inherent.body = "accum_body"
                            THEN sum_first + args[1] ELSE sum_first
           /\ sum_second' = IF output.inherent.body = "accum_body"
                             THEN sum_second + args[2] ELSE sum_second

\* (*view)(args): the closure body runs through the reference deref returned.
CallView ==
    /\ pc = "running"
    /\ view # NoAddr
    /\ ncalls < MaxCalls
    /\ \E args \in ArgTuples(output.deref.closure_params) :
         CallAt("view",
                this_ptr(view, closure_layout(output.deref.self_ty, build)),
                args, closure_forwarded(output, args))
    /\ nview' = nview + 1
    /\ closure' = IF view = StackAddr THEN "invoked" ELSE closure
    /\ UNCHANGED <<input, output, build, obj_addr, view>>

\* object.method(args): the forwarding method called directly.
CallDirect ==
    /\ pc = "running"
    /\ ncalls < MaxCalls
    /\ \E args \in ArgTuples(output.inherent.params) :
         CallAt("direct", obj_addr, args, args)
    /\ UNCHANGED <<input, output, build, obj_addr, view, closure, nview>>

Next == Expand \/ Compile \/ Construct \/ Deref \/ CallView \/ CallDirect

Spec == Init /\ [][Next]_vars

\* ------------------------------------------------------------------------
\* Properties
\* ------------------------------------------------------------------------
Expanded == pc # "source"
Toks(s) == { s[i] : i \in 1..Len(s) }
ReceiverOk(al) == Len(al) >= 2 /\ al[1] = "&" /\ al[2] = "self"
Lay == closure_layout(output.deref.self_ty, build)
WithArgList(d, al) == [d EXCEPT !.arglist = al]

\* C1: a declaration whose argument list does not start with the two tokens
\* & self (owning receiver, mutable receiver, receiver omitted) is never
\* parsed into a HackFn and never expanded.
C1_ReceiverRequired ==
    (Expanded /\ ~ReceiverOk(input.arglist)) =>
        /\ ~HackFn_parse(input).ok
        /\ output.kind = "compile_error"

C1_Witness ==
    /\ pc = "rejected"
    /\ input.args = << >>
    /\ input.top \in GoodTops
    /\ input.block \in GoodBlocks
    /\ input.arglist = <<"&", "mut", "self", ",", "a", ":", "T">>

\* C2: the generated code keeps the declared parameter order: the i-th parsed
\* parameter is the i-th parameter of the forwarding method, the i-th argument
\* type of the Fn target, the i-th closure parameter and the i-th argument the
\* closure passes on; a call of the view with (a1..an) reaches the method
\* with (a1..an).
C2_OrderKept ==
    /\ output.kind = "expanded" =>
         LET args == HackFn_parse(input).hf.args IN
         /\ Len(output.inherent.params) = Len(args)
         /\ Len(output.deref.target_args) = Len(args)
         /\ Len(output.deref.closure_params) = Len(args)
         /\ Len(output.deref.call.args) = Len(args)
         /\ \A i \in 1..Len(args) :
              /\ output.inherent.params[i] = [name |-> args[i].ident, ty |-> args[i].ty]
              /\ output.deref.target_args[i] = args[i].ty
              /\ output.deref.closure_params[i] = [name |-> args[i].ident, ty |-> args[i].ty]
              /\ output.deref.call.args[i] = args[i].ident
    /\ last.via = "view" => last.recv_args = last.args

C2_Witness ==
    /\ last.via = "view"
    /\ output.inherent.body = "tuple_body"
    /\ Len(last.args) = 2
    /\ last.args[1] # last.args[2]
    /\ last.ret = last.args

\* C3: a call through the view returns what the forwarding method called
\* directly on the same object with the same arguments returns, and leaves the
\* object as that call leaves it; for Plus(v) called with x it yields v + x
\* when the sum does not overflow (v = 1, x = 2 yields 3).
C3_ViewEqualsDirect ==
    last.via = "view" =>
        LET m == forwarding_method(output, last.pre, last.args, build.overflow_checks) IN
        /\ last.ret = m.ret
        /\ last.panicked = m.panic
        /\ obj = m.obj
        /\ (/\ output.inherent.body = "plus_body"
            /\ last.pre.v.hi = 0
            /\ last.args[1].hi = 0
            /\ last.pre.v.lo + last.args[1].lo < Limb)
           => last.ret = << U32(0, last.pre.v.lo + last.args[1].lo) >>

C3_Witness ==
    /\ input = PlusDecl
    /\ last.via = "view"
    /\ last.pre.v = U32(0, 1)
    /\ last.args = << U32(0, 2) >>
    /\ last.ret = << U32(0, 3) >>

\* C4: for AccumulatePairs, starting from zeroed cells, after any sequence of
\* calls the first cell holds the sum of the first arguments and the second
\* cell the sum of the second arguments: every call lands on the original
\* object.
C4_Accumulates ==
    (output.inherent.body = "accum_body" /\ pc \in {"running", "panicked"}) =>
        /\ obj.first = sum_first
        /\ obj.second = sum_second

C4_Witness ==
    /\ input = AccumDecl
    /\ nview = 3
    /\ ncalls = 3
    /\ obj.first = 60
    /\ obj.second = 6

\* C5: an argument list that ends with a comma is accepted whenever the same
\* list without that comma is, and yields the same parameters.
C5_TrailingComma ==
    LET al == input.arglist
        short == SubSeq(al, 1, Len(al) - 1)
        o == hackfn(WithArgList(input, short))
    IN (/\ Expanded
        /\ Len(al) > 1
        /\ al[Len(al)] = ","
        /\ short[Len(short)] # ","
        /\ o.kind = "expanded")
       => /\ output.kind = "expanded"
          /\ output.inherent.params = o.inherent.params
          /\ output.deref.closure_params = o.deref.closure_params

C5_Witness ==
    /\ pc = "expanded"
    /\ input.arglist = <<"&", "self", ",", "a", ":", "T", ",">>
    /\ Len(output.inherent.params) = 1

\* C6 as stated: whenever deref has returned a view, the closure's size and
\* its alignment both equal the target type's.
C6_SizeAndAlignChecked ==
    view # NoAddr =>
        /\ Lay.size = size_of(output.deref.self_ty)
        /\ Lay.align = align_of(output.deref.self_ty)

\* C6 amended: deref asserts that the closure's size equals the target type's
\* size; when it does not, deref panics and returns no view.  Alignment is
\* not compared.
C6_SizeChecked ==
    /\ view # NoAddr => Lay.size = size_of(output.deref.self_ty)
    /\ (closure # "none" /\ Lay.size # size_of(output.deref.self_ty)) =>
          (pc = "panicked" /\ view = NoAddr)

C6_Witness ==
    /\ view # NoAddr
    /\ Lay.size = size_of(output.deref.self_ty)
    /\ Lay.align # align_of(output.deref.self_ty)

\* The declaration cut off right after the token the error points at.
FirstIndex(s, t) == CHOOSE i \in 1..Len(s) : s[i] = t /\ \A j \in 1..(i - 1) : s[j] # t
Upto(s, n) == SubSeq(s, 1, IF n < Len(s) THEN n ELSE Len(s))
TruncateAt(d, e) ==
    IF e.stream = "args"
    THEN Decl(Upto(d.args, e.pos), << >>, << >>, << >>, d.body)
    ELSE IF e.stream = "input"
    THEN IF "brace" \in Toks(Upto(d.top, e.pos - 1))
         THEN [d EXCEPT !.top = Upto(d.top, e.pos)]
         ELSE Decl(d.args, Upto(d.top, e.pos), << >>, << >>, d.body)
    ELSE IF e.stream = "impl_block"
    THEN IF "paren" \in Toks(Upto(d.block, e.pos - 1))
         THEN [d EXCEPT !.top = Upto(d.top, FirstIndex(d.top, "brace")),
                        !.block = Upto(d.block, e.pos)]
         ELSE Decl(d.args, Upto(d.top, FirstIndex(d.top, "brace")),
                   Upto(d.block, e.pos), << >>, d.body)
    ELSE Decl(d.args, Upto(d.top, FirstIndex(d.top, "brace")),
              Upto(d.block, FirstIndex(d.block, "paren")),
              Upto(d.arglist, e.pos), d.body)

\* C7: when parsing fails the output is the diagnostic alone, with neither of
\* the generated declarations, and the diagnostic is the first error in parse
\* order: nothing after the token it points at is looked at.
C7_ErrorOnly ==
    pc = "rejected" =>
        /\ output.kind = "compile_error"
        /\ output.error.kind # "none"
        /\ ~output.inherent.present
        /\ ~output.deref.present
        /\ hackfn(TruncateAt(input, output.error)).error = output.error

C7_Witness ==
    /\ pc = "rejected"
    /\ input.block = <<"fn", "generics", "paren", "->", "brace">>
    /\ output.error = Error("expected identifier", "impl_block", 2)
    /\ ~output.inherent.present

MissingImpl == Decl(<< >>, <<"Plus", "brace">>, <<"fn", "call", "paren", "brace">>,
                    GoodArgs, "opaque")

ReceiverCase ==
    /\ Expanded
    /\ input.args = << >>
    /\ input.top \in GoodTops
    /\ input.block \in GoodBlocks
    /\ ~ReceiverOk(input.arglist)

\* C8 as stated: a receiver that is mutable, missing or otherwise not & self
\* is rejected with a ReceiverShapeError, a kind of error different from the
\* one other structural deviations get.
C8_ReceiverShapeError ==
    ReceiverCase =>
        /\ output.kind = "compile_error"
        /\ output.error.kind = "ReceiverShapeError"
        /\ output.error.kind # hackfn(MissingImpl).error.kind

\* C8 amended: such a declaration is rejected with an ordinary syn parse
\* error (expected & or expected self, pointing into the argument list), the
\* same kind of error every other structural deviation gets.
C8_ReceiverParseError ==
    ReceiverCase =>
        /\ output.kind = "compile_error"
        /\ output.error.kind = "syn::Error"
        /\ output.error.kind = hackfn(MissingImpl).error.kind
        /\ output.error.stream = "argument_list"
        /\ output.error.msg \in {"expected &", "expected self"}

C8_Witness ==
    /\ ReceiverCase
    /\ input.arglist = <<"&", "mut", "self">>
    /\ output.error = Error("expected self", "argument_list", 2)

\* The impl header in its grammatical form, with or without generics and
\* where-clause.
HeaderWith(g, w) ==
    { Rep("attr", n) \o <<"impl">> \o Opt(g, "generics") \o <<"Plus">>
        \o Opt(w, "where") \o <<"brace">> : n \in 0..MaxAttrs }
    \cup (IF g /\ w THEN GoodTops ELSE {})
Strip(top) == SelectSeq(top, LAMBDA t : t \notin {"generics", "where"})

\* C9: a method with its own generic parameter list or its own where-clause
\* is rejected; generics and where-clause of the impl block are accepted and
\* copied onto both generated declarations.
C9_MethodGenericsRejected ==
    /\ (Expanded /\ ({"generics", "where"} \cap Toks(input.block) # {})) =>
          (~HackFn_parse(input).ok /\ output.kind = "compile_error")
    /\ (Expanded /\ \E g, w \in BOOLEAN : input.top \in HeaderWith(g, w)) =>
          output.kind = hackfn([input EXCEPT !.top = Strip(input.top)]).kind
    /\ output.kind = "expanded" =>
          /\ output.inherent.generics = ("generics" \in Toks(input.top))
          /\ output.deref.generics = ("generics" \in Toks(input.top))
          /\ output.inherent.where_clause = ("where" \in Toks(input.top))
          /\ output.deref.where_clause = ("where" \in Toks(input.top))

C9_Witness ==
    /\ pc = "rejected"
    /\ "generics" \in Toks(input.top)
    /\ input.block = <<"fn", "call", "generics", "paren", "brace">>
    /\ output.error = Error("expected parentheses", "impl_block", 3)

\* C10: the reference deref returns holds the address of the original object,
\* every call through it runs the method on that address and never on the
\* uninitialized placeholder, and the closure value built in deref is
\* forgotten without being invoked or dropped.
C10_OriginalReceiver ==
    /\ view # NoAddr => view = obj_addr
    /\ last.via = "view" =>
          /\ last.receiver = obj_addr
          /\ ~last.read_uninit
    /\ closure \in {"none", "forgotten"}

C10_Witness ==
    /\ last.via = "view"
    /\ last.receiver = obj_addr
    /\ closure = "forgotten"
    /\ ncalls = 2
    /\ nview = 2

====
